---- MODULE Spec2Model ----
(***************************************************************************)
(* The H2 dump converters of mage-server-go/scripts:                       *)
(*   convert_h2_to_postgres.py  (statement oriented)                       *)
(*   convert_h2_to_sqlite.py    (line oriented)                            *)
(* Text is modelled as a sequence of one-character strings, so that the    *)
(* regular expressions and str methods of the scripts are computed as      *)
(* Python computes them, character by character. A value that a definition *)
(* uses several times is passed to a helper as a parameter.                *)
(***************************************************************************)
EXTENDS Integers, Sequences, FiniteSets, TLC

----------------------------------------------------------------------------
(* Characters and character classes of Python's re module, restricted to   *)
(* the alphabet the model's inputs use.                                    *)

LowerLetters == <<"a","b","c","d","e","f","g","h","i","j","k","l","m","n","o","p","q","r","s","t",
      "u","v","w","x","y","z">>
UpperLetters == <<"A","B","C","D","E","F","G","H","I","J","K","L","M","N","O","P","Q","R","S","T",
      "U","V","W","X","Y","Z">>
DigitChars == <<"0","1","2","3","4","5","6","7","8","9">>

Range(s) == {s[i] : i \in DOMAIN s}

LowerSet == Range(LowerLetters)
UpperSet == Range(UpperLetters)
DigitSet == Range(DigitChars)

\* \s
SpaceSet == {" ", "\n", "\t"}
\* \w
WordSet == LowerSet \cup UpperSet \cup DigitSet \cup {"_"}

UpperMap == [c \in LowerSet |-> UpperLetters[CHOOSE i \in DOMAIN LowerLetters : LowerLetters[i] = c]]
LowerMap == [c \in UpperSet |-> LowerLetters[CHOOSE i \in DOMAIN UpperLetters : UpperLetters[i] = c]]

UpperChar(c) == IF c \in LowerSet THEN UpperMap[c] ELSE c
LowerChar(c) == IF c \in UpperSet THEN LowerMap[c] ELSE c

\* str.upper() and str.lower()
upper(s) == [i \in 1..Len(s) |-> UpperChar(s[i])]
lower(s) == [i \in 1..Len(s) |-> LowerChar(s[i])]

\* The character at position i, or "" (no character) outside the string.
At(s, i) == IF i >= 1 /\ i <= Len(s) THEN s[i] ELSE ""

IsSpace(c) == c \in SpaceSet
IsWord(c) == c \in WordSet
IsDigit(c) == c \in DigitSet

\* s[i..j-1]
Slice(s, i, j) == SubSeq(s, i, j - 1)

Positions(s) == 1..Len(s)
Min(S) == CHOOSE x \in S : \A y \in S : x <= y
\* The least position of a set of positions, 0 when it is empty.
First(S) == IF S = {} THEN 0 ELSE Min(S)

\* The position after the longest run of characters of class C that starts
\* at i (a greedy \s*, \w* or \d*).
Span(s, i, C) ==
    IF i < 1 THEN i ELSE Min({j \in i..(Len(s) + 1) : At(s, j) \notin C})

\* The positions after consecutive greedy runs of the classes cs, from i.
RECURSIVE Runs(_, _, _)
Runs(s, i, cs) ==
    IF cs = <<>> THEN <<>>
    ELSE <<Span(s, i, Head(cs))>> \o Runs(s, Span(s, i, Head(cs)), Tail(cs))

\* \b between positions i-1 and i.
WordBoundary(s, i) == IsWord(At(s, i - 1)) # IsWord(At(s, i))

\* A literal at position i: exactly, and under re.IGNORECASE.
Lit(s, i, lit) ==
    /\ i >= 1
    /\ i + Len(lit) - 1 <= Len(s)
    /\ \A k \in 1..Len(lit) : s[i + k - 1] = lit[k]
LitCI(s, i, lit) ==
    /\ i >= 1
    /\ i + Len(lit) - 1 <= Len(s)
    /\ \A k \in 1..Len(lit) : UpperChar(s[i + k - 1]) = UpperChar(lit[k])

\* `sub in s`, and the position of the first occurrence (str.find + 1; 0 when absent).
Find(s, sub) == First({i \in Positions(s) : Lit(s, i, sub)})
Contains(s, sub) == Find(s, sub) > 0

\* str.replace(old, new, 1), old being found at p (0: not found).
ReplaceAt(s, p, old, new) ==
    IF p = 0 THEN s
    ELSE Slice(s, 1, p) \o new \o Slice(s, p + Len(old), Len(s) + 1)
ReplaceFirst(s, old, new) == ReplaceAt(s, Find(s, old), old, new)

\* Keywords separated by \s+ (KW1\s+KW2...), under re.IGNORECASE, at
\* position i: the position after the match, 0 when there is none.
RECURSIVE Keywords(_, _, _)
Keywords(s, i, kws) ==
    IF ~LitCI(s, i, Head(kws)) THEN 0
    ELSE IF Len(kws) = 1 THEN i + Len(Head(kws))
    ELSE IF ~IsSpace(At(s, i + Len(Head(kws)))) THEN 0
    ELSE Keywords(s, Span(s, i + Len(Head(kws)), SpaceSet), Tail(kws))

\* \s+ at position e, the end of a match (0: none): the position after
\* it, 0 when there is no match.
SpaceAfter(s, e) == IF e > 0 /\ IsSpace(At(s, e)) THEN Span(s, e, SpaceSet) ELSE 0

\* KW1\s+...KWn\s+ at position i: the position after the match, 0 when none.
KeywordsSpace(s, i, kws) == SpaceAfter(s, Keywords(s, i, kws))

\* re.match(r'^\s*KW1\s+...KWn\s+', line, re.IGNORECASE)
MatchLinePrefix(line, kws) == KeywordsSpace(line, Span(line, 1, SpaceSet), kws) > 0

\* (\w+) at position n, the end of a match (0: none): the span of the
\* group, <<0, 0>> when there is no match.
NameAt(s, n) == IF n > 0 /\ IsWord(At(s, n)) THEN <<n, Span(s, n, WordSet)>> ELSE <<0, 0>>

\* re.search(r'KW1\s+...KWn\s+(\w+)', s, re.IGNORECASE): the span of group 1
\* of the leftmost match, <<0, 0>> when there is no match.
NameAfter(s, i, kws) == NameAt(s, KeywordsSpace(s, i, kws))
SearchName(s, kws) ==
    NameAfter(s, First({i \in Positions(s) : NameAfter(s, i, kws)[1] > 0}), kws)

\* \b at position e, the end of a match (0: none).
BoundaryAfter(s, e) == IF e > 0 /\ WordBoundary(s, e) THEN e ELSE 0

\* \bKW1\s+...KWn\b
WordKeywords(s, i, kws) ==
    IF WordBoundary(s, i) THEN BoundaryAfter(s, Keywords(s, i, kws)) ELSE 0

\* \s+KW1\s+...KWn\b
SpaceKeywords(s, i, kws) ==
    IF IsSpace(At(s, i)) THEN BoundaryAfter(s, Keywords(s, Span(s, i, SpaceSet), kws))
    ELSE 0

\* \d+\) with the digits from m to f: the position after it, 0 when none.
DigitsClose(s, m, f) == IF f > m /\ At(s, f) = ")" THEN f + 1 ELSE 0

\* \(\d+\) at position i: the position after it, 0 when none.
Size(s, i) ==
    IF At(s, i) = "(" THEN DigitsClose(s, i + 1, Span(s, i + 1, DigitSet)) ELSE 0

\* ,\s*\d+\) with the comma at position d.
Scale(s, d) ==
    IF At(s, d) = ","
    THEN DigitsClose(s, Span(s, d + 1, SpaceSet), Span(s, Span(s, d + 1, SpaceSet), DigitSet))
    ELSE 0

\* \(\d+(?:,\s*\d+)?\) at position i: the position after it, 0 when none.
SizeOrScale(s, i) ==
    IF Size(s, i) > 0 THEN Size(s, i)
    ELSE IF At(s, i) = "(" /\ Span(s, i + 1, DigitSet) > i + 1
    THEN Scale(s, Span(s, i + 1, DigitSet))
    ELSE 0

\* The first "," or ")" or line break from position i on, or the end.
LineStop(s, i) == Min({j \in i..(Len(s) + 1) : At(s, j) \in {",", ")", "\n", ""}})

\* (.*?)(?=,|\)) from position i: the position of the first "," or ")" with
\* no line break before it, 0 when the line ends first.
Delimiter(s, i) == IF At(s, LineStop(s, i)) \in {",", ")"} THEN LineStop(s, i) ELSE 0

----------------------------------------------------------------------------
(* The type maps, in the order the scripts write them (the order matters   *)
(* for the SQLite script, which takes the first key that is a prefix).     *)

postgres_type_map == <<
    <<<<"V","A","R","C","H","A","R","_","I","G","N","O","R","E","C","A","S","E">>, <<"T","E","X",
        "T">>>>,
    <<<<"V","A","R","C","H","A","R">>, <<"V","A","R","C","H","A","R">>>>,
    <<<<"C","H","A","R">>, <<"C","H","A","R">>>>,
    <<<<"C","L","O","B">>, <<"T","E","X","T">>>>,
    <<<<"L","O","N","G","V","A","R","C","H","A","R">>, <<"T","E","X","T">>>>,
    <<<<"I","N","T","E","G","E","R">>, <<"I","N","T","E","G","E","R">>>>,
    <<<<"I","N","T">>, <<"I","N","T","E","G","E","R">>>>,
    <<<<"B","I","G","I","N","T">>, <<"B","I","G","I","N","T">>>>,
    <<<<"S","M","A","L","L","I","N","T">>, <<"S","M","A","L","L","I","N","T">>>>,
    <<<<"T","I","N","Y","I","N","T">>, <<"S","M","A","L","L","I","N","T">>>>,
    <<<<"B","O","O","L","E","A","N">>, <<"B","O","O","L","E","A","N">>>>,
    <<<<"B","I","T">>, <<"B","O","O","L","E","A","N">>>>,
    <<<<"D","E","C","I","M","A","L">>, <<"D","E","C","I","M","A","L">>>>,
    <<<<"D","O","U","B","L","E">>, <<"D","O","U","B","L","E"," ","P","R","E","C","I","S","I","O",
        "N">>>>,
    <<<<"F","L","O","A","T">>, <<"R","E","A","L">>>>,
    <<<<"R","E","A","L">>, <<"R","E","A","L">>>>,
    <<<<"T","I","M","E","S","T","A","M","P">>, <<"T","I","M","E","S","T","A","M","P">>>>,
    <<<<"D","A","T","E">>, <<"D","A","T","E">>>>,
    <<<<"T","I","M","E">>, <<"T","I","M","E">>>>,
    <<<<"B","L","O","B">>, <<"B","Y","T","E","A">>>>,
    <<<<"B","I","N","A","R","Y">>, <<"B","Y","T","E","A">>>> >>

sqlite_type_map == <<
    <<<<"V","A","R","C","H","A","R">>, <<"T","E","X","T">>>>,
    <<<<"V","A","R","C","H","A","R","_","I","G","N","O","R","E","C","A","S","E">>, <<"T","E","X",
        "T">>>>,
    <<<<"C","H","A","R">>, <<"T","E","X","T">>>>,
    <<<<"C","L","O","B">>, <<"T","E","X","T">>>>,
    <<<<"L","O","N","G","V","A","R","C","H","A","R">>, <<"T","E","X","T">>>>,
    <<<<"I","N","T","E","G","E","R">>, <<"I","N","T","E","G","E","R">>>>,
    <<<<"I","N","T">>, <<"I","N","T","E","G","E","R">>>>,
    <<<<"B","I","G","I","N","T">>, <<"I","N","T","E","G","E","R">>>>,
    <<<<"S","M","A","L","L","I","N","T">>, <<"I","N","T","E","G","E","R">>>>,
    <<<<"T","I","N","Y","I","N","T">>, <<"I","N","T","E","G","E","R">>>>,
    <<<<"B","O","O","L","E","A","N">>, <<"I","N","T","E","G","E","R">>>>,
    <<<<"B","I","T">>, <<"I","N","T","E","G","E","R">>>>,
    <<<<"D","E","C","I","M","A","L">>, <<"R","E","A","L">>>>,
    <<<<"D","O","U","B","L","E">>, <<"R","E","A","L">>>>,
    <<<<"F","L","O","A","T">>, <<"R","E","A","L">>>>,
    <<<<"R","E","A","L">>, <<"R","E","A","L">>>>,
    <<<<"T","I","M","E","S","T","A","M","P">>, <<"I","N","T","E","G","E","R">>>>,
    <<<<"D","A","T","E">>, <<"I","N","T","E","G","E","R">>>>,
    <<<<"T","I","M","E">>, <<"I","N","T","E","G","E","R">>>>,
    <<<<"B","L","O","B">>, <<"B","L","O","B">>>>,
    <<<<"B","I","N","A","R","Y">>, <<"B","L","O","B">>>> >>

\* The types whose size the Postgres script keeps.
sized_types == {<<"V","A","R","C","H","A","R">>, <<"C","H","A","R">>, <<"D","E","C","I","M","A",
      "L">>}

----------------------------------------------------------------------------
(* convert_h2_to_postgres.py: the type mapper and the name rules.          *)

\* The lookup of convert_data_type, given group 1 and group 2 of the match.
postgres_lookup(h2_type, base_type, size) ==
    LET keys == {k \in DOMAIN postgres_type_map : postgres_type_map[k][1] = base_type}
    IN  IF base_type # <<>> /\ keys # {}
        THEN IF base_type \in sized_types /\ size # <<>>
             THEN postgres_type_map[Min(keys)][2] \o size
             ELSE postgres_type_map[Min(keys)][2]
        ELSE h2_type

\* The groups of re.match(r'(\w+)(\(\d+\))?', h2_type_upper), the first
\* ending before position b.
postgres_type_groups(h2_type, h2_type_upper, b) ==
    postgres_lookup(h2_type, Slice(h2_type_upper, 1, b),
                    IF Size(h2_type_upper, b) > 0
                    THEN Slice(h2_type_upper, b, Size(h2_type_upper, b)) ELSE <<>>)

\* convert_data_type: the size is kept for VARCHAR, CHAR and DECIMAL; a
\* type that has no entry, or does not start with a word, is returned as is.
postgres_convert_data_type(h2_type) ==
    postgres_type_groups(h2_type, upper(h2_type), Span(upper(h2_type), 1, WordSet))

convert_table_name(name) == lower(name)

convert_column_name(name) == lower(name)

NoColumn == [end |-> 0, indent |-> <<>>, name |-> <<>>, type |-> <<>>, rest |-> <<>>]

\* The match of the column pattern whose type ends before position z and
\* whose rest ends before position e.
postgres_column_groups(s, i, r, z, e) ==
    [end |-> e, indent |-> Slice(s, i, r[1]), name |-> Slice(s, r[1], r[2]),
     type |-> Slice(s, r[3], z), rest |-> Slice(s, z, e)]

\* The backtracking over the optional size, which ends before position z
\* (0: there is no size): first with it, then without it.
postgres_column_sized(s, i, r, z) ==
    IF z > 0 /\ Delimiter(s, z) > 0 THEN postgres_column_groups(s, i, r, z, Delimiter(s, z))
    ELSE IF Delimiter(s, r[4]) > 0
    THEN postgres_column_groups(s, i, r, r[4], Delimiter(s, r[4]))
    ELSE NoColumn

\* The column pattern of convert_create_table at position i,
\*   (\s+)(\w+)\s+(\w+(?:\(\d+(?:,\s*\d+)?\))?)(.*?)(?=,|\))
\* r holds the ends of the four greedy runs \s+ \w+ \s+ \w+, which cannot
\* give characters back. end = 0: no match at i.
postgres_column_runs(s, i, r) ==
    IF r[1] > i /\ r[2] > r[1] /\ r[3] > r[2] /\ r[4] > r[3]
    THEN postgres_column_sized(s, i, r, SizeOrScale(s, r[4]))
    ELSE NoColumn

postgres_column_def(s, i) ==
    postgres_column_runs(s, i, Runs(s, i, <<SpaceSet, WordSet, SpaceSet, WordSet>>))

\* replace_column_def: f"{indent}{col_name} {col_type}{rest}"
replace_column_def(m) ==
    m.indent \o convert_column_name(m.name) \o <<" ">> \o postgres_convert_data_type(m.type) \o m.rest

----------------------------------------------------------------------------
(* convert_h2_to_sqlite.py: the type mapper.                               *)

NoType == [end |-> 0, indent |-> <<>>, type |-> <<>>]

\* The column pattern whose type ends before position z.
sqlite_column_sized(s, i, r, z) ==
    IF r[1] > i /\ r[2] > r[1] /\ At(s, Span(s, z, SpaceSet)) \in {",", ")"}
    THEN [end |-> Span(s, z, SpaceSet), indent |-> Slice(s, i, r[1]),
          type |-> Slice(s, r[1], z)]
    ELSE NoType

\* The column pattern of the SQLite convert_create_table at position i,
\*   (\s+)(\w+(?:\(\d+\))?)\s*(?=,|\))
\* r holds the ends of the greedy runs \s+ \w+.
sqlite_column_runs(s, i, r) ==
    sqlite_column_sized(s, i, r, IF Size(s, r[2]) > 0 THEN Size(s, r[2]) ELSE r[2])

sqlite_column_type(s, i) == sqlite_column_runs(s, i, Runs(s, i, <<SpaceSet, WordSet>>))

\* re.sub(r'\(\d+\)', '', h2_type), from position i on, the next size
\* being at position j (0: there is none).
RECURSIVE strip_sizes(_, _)
strip_sizes_at(s, i, j) ==
    IF j = 0 THEN Slice(s, i, Len(s) + 1)
    ELSE Slice(s, i, j) \o strip_sizes(s, Size(s, j))
strip_sizes(s, i) == strip_sizes_at(s, i, First({j \in i..Len(s) : Size(s, j) > 0}))

\* The loop over type_map.items(): the first key, in the order of the map,
\* that the type starts with; TEXT when there is none.
sqlite_lookup(t) ==
    LET keys == {k \in DOMAIN sqlite_type_map : Lit(t, 1, sqlite_type_map[k][1])}
    IN  IF keys # {} THEN sqlite_type_map[Min(keys)][2] ELSE <<"T","E","X","T">>

\* convert_data_type: upper-cased, the sizes stripped, looked up.
sqlite_convert_data_type(h2_type) == sqlite_lookup(strip_sizes(upper(h2_type), 1))

\* replace_type: match.group(1) + convert_data_type(match.group(2))
replace_type(m) == m.indent \o sqlite_convert_data_type(m.type)

----------------------------------------------------------------------------
(* re.sub: the patterns the scripts substitute, and the substitution.      *)

\* (ON\s+)old_name, the name starting at position n (0: no match).
OnName(s, n, old_name) == IF n > 0 /\ LitCI(s, n, old_name) THEN n + Len(old_name) ELSE 0

\* The position after the match of pattern p at i; 0 when there is none.
MatchEnd(p, s, i) ==
    CASE p.re = "space_keywords" -> SpaceKeywords(s, i, p.kws)
      [] p.re = "word_keywords" -> WordKeywords(s, i, p.kws)
      [] p.re = "postgres_column" -> postgres_column_def(s, i).end
      [] p.re = "sqlite_column" -> sqlite_column_type(s, i).end
      [] p.re = "on_name" -> OnName(s, KeywordsSpace(s, i, <<<<"O","N">>>>), p.old_name)

\* What the match s[i..e-1] of pattern p is replaced by.
Replacement(p, s, i, e) ==
    CASE p.re = "space_keywords" -> p.repl
      [] p.re = "word_keywords" -> p.repl
      [] p.re = "postgres_column" -> replace_column_def(postgres_column_def(s, i))
      [] p.re = "sqlite_column" -> replace_type(sqlite_column_type(s, i))
      [] p.re = "on_name" -> Slice(s, i, e - Len(p.old_name)) \o p.new_name

\* re.sub(p, repl, s) from position i on: the leftmost match, at position
\* j (0: there is none), is replaced, and the substitution goes on from its
\* end (no pattern here matches the empty string).
RECURSIVE ReSub(_, _, _)
ReSubMatch(p, s, j, e) == Replacement(p, s, j, e) \o ReSub(p, s, e)
ReSubAt(p, s, i, j) ==
    IF j = 0 THEN Slice(s, i, Len(s) + 1)
    ELSE Slice(s, i, j) \o ReSubMatch(p, s, j, MatchEnd(p, s, j))
ReSub(p, s, i) == ReSubAt(p, s, i, First({j \in i..Len(s) : MatchEnd(p, s, j) > 0}))

\* re.sub(r'\s+KW...\b', '', s, flags=re.IGNORECASE)
RemoveClause(s, kws) == ReSub([re |-> "space_keywords", kws |-> kws, repl |-> <<>>], s, 1)
\* re.sub(r'\bKW...\b', repl, s, flags=re.IGNORECASE)
ReplaceWord(s, kws, repl) == ReSub([re |-> "word_keywords", kws |-> kws, repl |-> repl], s, 1)

\* if match: statement = statement.replace(old_name, new_name, 1), m being
\* the span of match.group(1) (<<0, 0>>: no match).
lower_first(statement, old_name) ==
    ReplaceFirst(statement, old_name, convert_table_name(old_name))
lower_name(statement, m) ==
    IF m[1] = 0 THEN statement ELSE lower_first(statement, Slice(statement, m[1], m[2]))

\* match = re.search(r'KW...\s+(\w+)', statement, re.IGNORECASE)
lower_name_after(statement, kws) == lower_name(statement, SearchName(statement, kws))

----------------------------------------------------------------------------
(* convert_h2_to_postgres.py: the rewriters.                               *)

\* convert_create_table, first part: the H2 clauses are removed.
postgres_remove_clauses(statement) ==
    RemoveClause(RemoveClause(statement, <<<<"C","A","C","H","E","D">>>>), <<<<"N","O","T">>, <<"P",
        "E","R","S","I","S","T","E","N","T">>>>)

\* convert_create_table, second part: the table name.
postgres_table_name_step(statement) == lower_name_after(statement, <<<<"C","R","E","A","T",
      "E">>, <<"T","A","B","L","E">>>>)

\* convert_create_table, third part: the column definitions.
postgres_columns_step(statement) == ReSub([re |-> "postgres_column"], statement, 1)

postgres_convert_create_table(statement) ==
    postgres_columns_step(postgres_table_name_step(postgres_remove_clauses(statement)))

\* convert_insert, first part: 'INSERT INTO <name>' is replaced, once,
\* m being the span of match.group(1) (<<0, 0>>: no match).
postgres_insert_name(statement, m) ==
    IF m[1] = 0 THEN statement
    ELSE ReplaceFirst(statement, <<"I","N","S","E","R","T"," ","I","N","T","O",
        " ">> \o Slice(statement, m[1], m[2]),
                      <<"I","N","S","E","R","T"," ","I","N","T","O",
                          " ">> \o convert_table_name(Slice(statement, m[1], m[2])))

postgres_convert_insert(statement) ==
    ReplaceWord(ReplaceWord(postgres_insert_name(statement,
                                                 SearchName(statement, <<<<"I","N","S","E","R",
                                                     "T">>, <<"I","N","T","O">>>>)),
                            <<<<"t","r","u","e">>>>, <<"T","R","U","E">>),
                <<<<"f","a","l","s","e">>>>, <<"F","A","L","S","E">>)

\* The re.sub of convert_create_index, m being the span of match.group(1).
\* The replacement template is r'\1' + new_name, a plain reference to
\* group 1 as long as the name starts with a letter or "_", as the unquoted
\* identifiers of a dump do.
postgres_index_name(statement, m) ==
    IF m[1] = 0 THEN statement
    ELSE ReSub([re |-> "on_name", old_name |-> Slice(statement, m[1], m[2]),
                new_name |-> convert_table_name(Slice(statement, m[1], m[2]))], statement, 1)

postgres_convert_create_index(statement) ==
    postgres_index_name(statement, SearchName(statement, <<<<"O","N">>>>))

convert_sequence(statement) ==
    lower_name_after(ReplaceWord(statement, <<<<"S","T","A","R","T">>, <<"W","I","T","H">>>>, <<"S",
        "T","A","R","T">>),
                     <<<<"C","R","E","A","T","E">>, <<"S","E","Q","U","E","N","C","E">>>>)

\* The ALTER SEQUENCE branch of convert_h2_to_postgres.
postgres_alter_sequence(stmt) == lower_name_after(stmt, <<<<"A","L","T","E","R">>, <<"S","E","Q",
      "U","E","N","C","E">>>>)

postgres_skip_patterns == <<
    <<<<"S","E","T">>>>,
    <<<<"C","R","E","A","T","E">>, <<"U","S","E","R">>>>,
    <<<<"C","R","E","A","T","E">>, <<"S","C","H","E","M","A">>>>,
    <<<<"G","R","A","N","T">>>> >>

\* should_skip_line without the pattern of GRANT.
should_skip_line_without_grant(line) ==
    \E k \in 1..3 : MatchLinePrefix(line, postgres_skip_patterns[k])

postgres_should_skip_line(line) ==
    \E k \in DOMAIN postgres_skip_patterns : MatchLinePrefix(line, postgres_skip_patterns[k])

----------------------------------------------------------------------------
(* convert_h2_to_sqlite.py: the rewriters.                                 *)

sqlite_convert_create_table(line) ==
    ReSub([re |-> "sqlite_column"],
          RemoveClause(RemoveClause(line, <<<<"C","A","C","H","E","D">>>>), <<<<"N","O",
              "T">>, <<"P","E","R","S","I","S","T","E","N","T">>>>), 1)

sqlite_convert_insert(line) ==
    ReplaceWord(ReplaceWord(ReplaceWord(line, <<<<"T","R","U","E">>>>, <<"1">>), <<<<"F","A","L",
        "S","E">>>>, <<"0">>),
                <<<<"N","U","L","L">>>>, <<"N","U","L","L">>)

sqlite_skip_patterns == <<
    <<<<"S","E","T">>>>,
    <<<<"A","L","T","E","R">>, <<"S","E","Q","U","E","N","C","E">>>>,
    <<<<"C","R","E","A","T","E">>, <<"S","E","Q","U","E","N","C","E">>>>,
    <<<<"C","R","E","A","T","E">>, <<"U","S","E","R">>>>,
    <<<<"C","R","E","A","T","E">>, <<"S","C","H","E","M","A">>>>,
    <<<<"G","R","A","N","T">>>> >>

\* The last pattern, ^\s*--, has no \s+ after it.
sqlite_should_skip_line(line) ==
    \/ \E k \in DOMAIN sqlite_skip_patterns : MatchLinePrefix(line, sqlite_skip_patterns[k])
    \/ Lit(line, Span(line, 1, SpaceSet), <<"-","-">>)

----------------------------------------------------------------------------
(* Text files: str.split, readlines, str.join, writelines.                 *)

\* content.split('\n')
\* from position i on, the next line break being at position j (0: none).
RECURSIVE split(_, _)
split_at(s, i, j) ==
    IF j = 0 THEN <<Slice(s, i, Len(s) + 1)>>
    ELSE <<Slice(s, i, j)>> \o split(s, j + 1)
split(s, i) == split_at(s, i, First({j \in i..Len(s) : s[j] = "\n"}))

\* f_in.readlines(): every line keeps its line break.
RECURSIVE readlines(_, _)
readlines_at(s, i, j) ==
    IF i > Len(s) THEN <<>>
    ELSE IF j = 0 THEN <<Slice(s, i, Len(s) + 1)>>
    ELSE <<Slice(s, i, j + 1)>> \o readlines(s, j + 1)
readlines(s, i) == readlines_at(s, i, First({j \in i..Len(s) : s[j] = "\n"}))

\* sep.join(parts)
RECURSIVE join(_, _)
join(sep, parts) ==
    IF parts = <<>> THEN <<>>
    ELSE IF Len(parts) = 1 THEN parts[1]
    ELSE parts[1] \o sep \o join(sep, Tail(parts))

\* not line.strip()
IsBlank(line) == \A k \in DOMAIN line : IsSpace(line[k])

----------------------------------------------------------------------------
(* The inputs: dump files of at most MaxLines lines, each line one of the  *)
(* lines below, each ended by a line break.                                *)

MaxLines == 3

blank_line == <<>>
\* GRANT SELECT ON Users TO admin;
grant_line == <<"G","R","A","N","T"," ","S","E","L","E","C","T"," ","O","N"," ","U","s","e","r","s",
      " ","T","O"," ","a","d","m","i","n",";">>
\* SET X 1;
set_line == <<"S","E","T"," ","X"," ","1",";">>
\* CREATE USER u;
create_user_line == <<"C","R","E","A","T","E"," ","U","S","E","R"," ","u",";">>
\* CREATE SCHEMA s;
create_schema_line == <<"C","R","E","A","T","E"," ","S","C","H","E","M","A"," ","s",";">>
\* CREATE SEQUENCE Seq1 START WITH 100;
create_sequence_line == <<"C","R","E","A","T","E"," ","S","E","Q","U","E","N","C","E"," ","S","e",
      "q","1"," ","S","T","A","R","T"," ","W","I","T","H"," ","1","0","0",";">>
\* ALTER SEQUENCE Seq1 START WITH 5;
alter_sequence_line == <<"A","L","T","E","R"," ","S","E","Q","U","E","N","C","E"," ","S","e","q",
      "1"," ","S","T","A","R","T"," ","W","I","T","H"," ","5",";">>
\* CREATE TABLE Users (Id INTEGER, Name VARCHAR(50));
create_users_line == <<"C","R","E","A","T","E"," ","T","A","B","L","E"," ","U","s","e","r","s"," ",
      "(","I","d"," ","I","N","T","E","G","E","R",","," ","N","a","m","e"," ","V","A","R","C","H",
      "A","R","(","5","0",")",")",";">>
\* CREATE TABLE Person (
create_person_line == <<"C","R","E","A","T","E"," ","T","A","B","L","E"," ","P","e","r","s","o","n",
      " ","(">>
\*   Id INTEGER,
column_line == <<" "," ","I","d"," ","I","N","T","E","G","E","R",",">>
\*   D DOUBLE);
last_column_line == <<" "," ","D"," ","D","O","U","B","L","E",")",";">>
\* INSERT INTO Users
insert_line == <<"I","N","S","E","R","T"," ","I","N","T","O"," ","U","s","e","r","s">>
\* VALUES (1, 'Bob', true);
values_line == <<"V","A","L","U","E","S"," ","(","1",","," ","'","B","o","b","'",","," ","t","r",
      "u","e",")",";">>
\* CREATE INDEX Idx ON Users (Id);
create_index_line == <<"C","R","E","A","T","E"," ","I","N","D","E","X"," ","I","d","x"," ","O","N",
      " ","U","s","e","r","s"," ","(","I","d",")",";">>

InputLines == {
    blank_line, grant_line, set_line, create_user_line, create_schema_line,
    create_sequence_line, alter_sequence_line, create_users_line,
    create_person_line,
    column_line, last_column_line, insert_line, values_line, create_index_line }

\* The text of a file whose lines are ls.
RECURSIVE FileOf(_)
FileOf(ls) == IF ls = <<>> THEN <<>> ELSE Head(ls) \o <<"\n">> \o FileOf(Tail(ls))

InputFiles == {FileOf(ls) : ls \in UNION {[1..n -> InputLines] : n \in 0..MaxLines}}

----------------------------------------------------------------------------
(* The state of one run of a script, <script> <input-file> <output-file>.  *)

VARIABLES
    script,               \* "postgres" or "sqlite": the script that runs
    run,                  \* "first", or "second": the script runs on its own output
    content,              \* the text of the input file
    pc,                   \* "start", "segment", "convert", "lines", "done"
    lines,                \* the lines of the input file
    line_no,              \* the position of the loop over lines
    statements,           \* postgres: the segmented statements
    current_statement,    \* postgres: the lines of the statement being accumulated
    stmt_no,              \* postgres: the position of the loop over statements
    in_create_table,      \* sqlite
    create_table_buffer,  \* sqlite
    converted,            \* converted (postgres), converted_lines (sqlite)
    stats,
    output,               \* the text of the output file
    \* History variables, which the scripts do not keep: where each text
    \* comes from, and which branch converted it.
    current_origin,       \* the line numbers of current_statement or create_table_buffer
    statement_origin,     \* the line numbers of each of statements
    converted_origin,     \* the line numbers of each of converted
    kinds,                \* the branch that appended each of converted
    first_output,         \* the output of the first run
    \* One call of a function of a script, on its own.
    called,               \* the function: "convert_data_type", "table_name", or "none"
    argument,             \* its argument
    returned              \* <<>>, then the value it has returned, in a tuple

vars == <<script, run, content, pc, lines, line_no, statements, current_statement, stmt_no,
          in_create_table, create_table_buffer, converted, stats, output,
          current_origin, statement_origin, converted_origin, kinds, first_output,
          called, argument, returned>>

call_vars == <<called, argument, returned>>

NoStats == [k \in {} |-> 0]

\* The state of a run before its script has read anything.
Fresh ==
    /\ pc = "start"
    /\ lines = <<>>
    /\ line_no = 1
    /\ statements = <<>>
    /\ current_statement = <<>>
    /\ stmt_no = 1
    /\ in_create_table = FALSE
    /\ create_table_buffer = <<>>
    /\ converted = <<>>
    /\ stats = NoStats
    /\ output = <<>>
    /\ current_origin = <<>>
    /\ statement_origin = <<>>
    /\ converted_origin = <<>>
    /\ kinds = <<>>

Init ==
    /\ script \in {"postgres", "sqlite"}
    /\ run = "first"
    /\ content \in InputFiles
    /\ first_output = <<>>
    /\ Fresh
    /\ called = "none"
    /\ argument = <<>>
    /\ returned = <<>>

----------------------------------------------------------------------------
(* convert_h2_to_postgres                                                  *)

\* with open(input_file) ...: content = f_in.read(); the loop starts.
postgres_read ==
    /\ script = "postgres"
    /\ pc = "start"
    /\ lines' = split(content, 1)
    /\ statements' = <<>>
    /\ current_statement' = <<>>
    /\ current_origin' = <<>>
    /\ line_no' = 1
    /\ pc' = "segment"
    /\ UNCHANGED <<script, run, content, stmt_no, in_create_table, create_table_buffer,
                   converted, stats, output, statement_origin, converted_origin, kinds,
                   first_output, call_vars>>

\* One iteration of `for line in content.split('\n')`.
postgres_segment_line ==
    /\ script = "postgres"
    /\ pc = "segment"
    /\ line_no <= Len(lines)
    /\ LET line == lines[line_no]
           appended == Append(current_statement, line)
       IN  IF IsBlank(line) \/ postgres_should_skip_line(line)
           THEN UNCHANGED <<statements, current_statement, current_origin, statement_origin>>
           ELSE IF Contains(line, <<";">>)
           THEN /\ statements' = Append(statements, join(<<"\n">>, appended))
                /\ statement_origin' = Append(statement_origin, Append(current_origin, line_no))
                /\ current_statement' = <<>>
                /\ current_origin' = <<>>
           ELSE /\ current_statement' = appended
                /\ current_origin' = Append(current_origin, line_no)
                /\ UNCHANGED <<statements, statement_origin>>
    /\ line_no' = line_no + 1
    /\ UNCHANGED <<script, run, content, pc, lines, stmt_no, in_create_table,
                   create_table_buffer, converted, stats, output, converted_origin, kinds,
                   first_output, call_vars>>

\* The end of the loop over the lines, with the statement being accumulated
\* taken as one more statement.
postgres_segment_end_flush ==
    /\ script = "postgres"
    /\ pc = "segment"
    /\ line_no > Len(lines)
    /\ statements' = IF current_statement = <<>> THEN statements
                     ELSE Append(statements, join(<<"\n">>, current_statement))
    /\ statement_origin' = IF current_statement = <<>> THEN statement_origin
                           ELSE Append(statement_origin, current_origin)
    /\ converted' = <<>>
    /\ converted_origin' = <<>>
    /\ kinds' = <<>>
    /\ stats' = [create_table |-> 0, insert |-> 0, create_index |-> 0,
                 create_sequence |-> 0, alter_sequence |-> 0, other |-> 0]
    /\ stmt_no' = 1
    /\ pc' = "convert"
    /\ UNCHANGED <<script, run, content, lines, line_no, current_statement,
                   in_create_table, create_table_buffer, output, current_origin,
                   first_output, call_vars>>

\* The loop over the lines is over: converted and stats are set up.
postgres_segment_end ==
    /\ script = "postgres"
    /\ pc = "segment"
    /\ line_no > Len(lines)
    /\ converted' = <<>>
    /\ converted_origin' = <<>>
    /\ kinds' = <<>>
    /\ stats' = [create_table |-> 0, insert |-> 0, create_index |-> 0,
                 create_sequence |-> 0, alter_sequence |-> 0, other |-> 0]
    /\ stmt_no' = 1
    /\ pc' = "convert"
    /\ UNCHANGED <<script, run, content, lines, line_no, statements, current_statement,
                   in_create_table, create_table_buffer, output, current_origin,
                   statement_origin, first_output, call_vars>>

\* The if/elif chain with the test of INSERT INTO before that of CREATE TABLE.
postgres_branch_insert_first(stmt_upper) ==
    IF Contains(stmt_upper, <<"I","N","S","E","R","T"," ","I","N","T","O">>) THEN "insert"
    ELSE IF Contains(stmt_upper, <<"C","R","E","A","T","E"," ","T","A","B","L",
        "E">>) THEN "create_table"
    ELSE IF Contains(stmt_upper, <<"C","R","E","A","T","E"," ","I","N","D","E",
        "X">>) THEN "create_index"
    ELSE IF Contains(stmt_upper, <<"C","R","E","A","T","E"," ","S","E","Q","U","E","N","C",
        "E">>) THEN "create_sequence"
    ELSE IF Contains(stmt_upper, <<"A","L","T","E","R"," ","S","E","Q","U","E","N","C",
        "E">>) THEN "alter_sequence"
    ELSE "other"

\* The conditions of the if/elif chain of `for stmt in statements`: the
\* branch taken.
postgres_branch(stmt_upper) ==
    IF Contains(stmt_upper, <<"C","R","E","A","T","E"," ","T","A","B","L","E">>) THEN "create_table"
    ELSE IF Contains(stmt_upper, <<"I","N","S","E","R","T"," ","I","N","T","O">>) THEN "insert"
    ELSE IF Contains(stmt_upper, <<"C","R","E","A","T","E"," ","I","N","D","E",
        "X">>) THEN "create_index"
    ELSE IF Contains(stmt_upper, <<"C","R","E","A","T","E"," ","S","E","Q","U","E","N","C",
        "E">>) THEN "create_sequence"
    ELSE IF Contains(stmt_upper, <<"A","L","T","E","R"," ","S","E","Q","U","E","N","C",
        "E">>) THEN "alter_sequence"
    ELSE "other"

postgres_kind(stmt) == postgres_branch(upper(stmt))

\* What the branch appends to converted.
postgres_convert(stmt, kind) ==
    CASE kind = "create_table" -> postgres_convert_create_table(stmt)
      [] kind = "insert" -> postgres_convert_insert(stmt)
      [] kind = "create_index" -> postgres_convert_create_index(stmt)
      [] kind = "create_sequence" -> convert_sequence(stmt)
      [] kind = "alter_sequence" -> postgres_alter_sequence(stmt)
      [] kind = "other" -> stmt

\* The body of the loop, the branch being kind.
postgres_append(stmt, kind) ==
    /\ converted' = Append(converted, postgres_convert(stmt, kind))
    /\ stats' = [stats EXCEPT ![kind] = @ + 1]
    /\ kinds' = Append(kinds, kind)

\* One iteration of `for stmt in statements`.
postgres_convert_statement ==
    /\ script = "postgres"
    /\ pc = "convert"
    /\ stmt_no <= Len(statements)
    /\ postgres_append(statements[stmt_no], postgres_kind(statements[stmt_no]))
    /\ converted_origin' = Append(converted_origin, statement_origin[stmt_no])
    /\ stmt_no' = stmt_no + 1
    /\ UNCHANGED <<script, run, content, pc, lines, line_no, statements, current_statement,
                   in_create_table, create_table_buffer, output, current_origin,
                   statement_origin, first_output, call_vars>>

\* f_out.write('\n'.join(converted))
postgres_write ==
    /\ script = "postgres"
    /\ pc = "convert"
    /\ stmt_no > Len(statements)
    /\ output' = join(<<"\n">>, converted)
    /\ pc' = "done"
    /\ UNCHANGED <<script, run, content, lines, line_no, statements, current_statement,
                   stmt_no, in_create_table, create_table_buffer, converted, stats,
                   current_origin, statement_origin, converted_origin, kinds, first_output, call_vars>>

----------------------------------------------------------------------------
(* convert_h2_to_sqlite                                                    *)

\* lines = f_in.readlines(); the buffers and stats are set up.
sqlite_read ==
    /\ script = "sqlite"
    /\ pc = "start"
    /\ lines' = readlines(content, 1)
    /\ converted' = <<>>
    /\ converted_origin' = <<>>
    /\ kinds' = <<>>
    /\ in_create_table' = FALSE
    /\ create_table_buffer' = <<>>
    /\ current_origin' = <<>>
    /\ stats' = [total_lines |-> Len(lines'), converted_lines |-> 0, skipped_lines |-> 0,
                 create_tables |-> 0, inserts |-> 0]
    /\ line_no' = 1
    /\ pc' = "lines"
    /\ UNCHANGED <<script, run, content, statements, current_statement, stmt_no, output,
                   statement_origin, first_output, call_vars>>

\* converted_lines.append(text); stats['converted_lines'] += 1, in branch kind.
sqlite_emit(text, origin, kind, counter) ==
    /\ converted' = Append(converted, text)
    /\ converted_origin' = Append(converted_origin, origin)
    /\ kinds' = Append(kinds, kind)
    /\ stats' = IF counter = "none"
                THEN [stats EXCEPT !.converted_lines = @ + 1]
                ELSE [stats EXCEPT !.converted_lines = @ + 1, ![counter] = @ + 1]

\* One iteration of `for line in lines`.
sqlite_line ==
    /\ script = "sqlite"
    /\ pc = "lines"
    /\ line_no <= Len(lines)
    /\ LET line == lines[line_no]
       IN  IF IsBlank(line)
           THEN UNCHANGED <<in_create_table, create_table_buffer, current_origin, converted,
                            converted_origin, kinds, stats>>
           ELSE IF sqlite_should_skip_line(line)
           THEN /\ stats' = [stats EXCEPT !.skipped_lines = @ + 1]
                /\ UNCHANGED <<in_create_table, create_table_buffer, current_origin,
                               converted, converted_origin, kinds>>
           ELSE IF MatchLinePrefix(line, <<<<"C","R","E","A","T","E">>, <<"T","A","B","L","E">>>>)
           THEN /\ in_create_table' = TRUE
                /\ create_table_buffer' = <<line>>
                /\ current_origin' = <<line_no>>
                /\ UNCHANGED <<converted, converted_origin, kinds, stats>>
           ELSE IF in_create_table
           THEN IF Contains(line, <<";">>)
                THEN /\ sqlite_emit(sqlite_convert_create_table(
                                        join(<<>>, Append(create_table_buffer, line))),
                                    Append(current_origin, line_no),
                                    "create_table", "create_tables")
                     /\ in_create_table' = FALSE
                     /\ create_table_buffer' = <<>>
                     /\ current_origin' = <<>>
                ELSE /\ create_table_buffer' = Append(create_table_buffer, line)
                     /\ current_origin' = Append(current_origin, line_no)
                     /\ UNCHANGED <<in_create_table, converted, converted_origin, kinds,
                                    stats>>
           ELSE IF MatchLinePrefix(line, <<<<"I","N","S","E","R","T">>, <<"I","N","T","O">>>>)
           THEN /\ sqlite_emit(sqlite_convert_insert(line), <<line_no>>, "insert", "inserts")
                /\ UNCHANGED <<in_create_table, create_table_buffer, current_origin>>
           ELSE IF MatchLinePrefix(line, <<<<"C","R","E","A","T","E">>, <<"I","N","D","E","X">>>>)
           THEN /\ sqlite_emit(line, <<line_no>>, "create_index", "none")
                /\ UNCHANGED <<in_create_table, create_table_buffer, current_origin>>
           ELSE /\ sqlite_emit(line, <<line_no>>, "other", "none")
                /\ UNCHANGED <<in_create_table, create_table_buffer, current_origin>>
    /\ line_no' = line_no + 1
    /\ UNCHANGED <<script, run, content, pc, lines, statements, current_statement, stmt_no,
                   output, statement_origin, first_output, call_vars>>

\* f_out.writelines(converted_lines)
sqlite_write ==
    /\ script = "sqlite"
    /\ pc = "lines"
    /\ line_no > Len(lines)
    /\ output' = join(<<>>, converted)
    /\ pc' = "done"
    /\ UNCHANGED <<script, run, content, lines, line_no, statements, current_statement,
                   stmt_no, in_create_table, create_table_buffer, converted, stats,
                   current_origin, statement_origin, converted_origin, kinds, first_output, call_vars>>

----------------------------------------------------------------------------
(* main: the script is run again, on the file it has written.              *)

rerun ==
    /\ pc = "done"
    /\ run = "first"
    /\ run' = "second"
    /\ content' = output
    /\ first_output' = output
    /\ pc' = "start"
    /\ lines' = <<>>
    /\ line_no' = 1
    /\ statements' = <<>>
    /\ current_statement' = <<>>
    /\ stmt_no' = 1
    /\ in_create_table' = FALSE
    /\ create_table_buffer' = <<>>
    /\ converted' = <<>>
    /\ stats' = NoStats
    /\ output' = <<>>
    /\ current_origin' = <<>>
    /\ statement_origin' = <<>>
    /\ converted_origin' = <<>>
    /\ kinds' = <<>>
    /\ UNCHANGED <<script, call_vars>>

Next ==
    \/ postgres_read
    \/ postgres_segment_line
    \/ postgres_segment_end
    \/ postgres_convert_statement
    \/ postgres_write
    \/ sqlite_read
    \/ sqlite_line
    \/ sqlite_write
    \/ rerun

Spec == Init /\ [][Next]_vars

----------------------------------------------------------------------------
(* One function of a script, called on its own: the type mapper on a type  *)
(* token, the table-name part of convert_create_table on a statement.      *)

TypeSizes == {<<>>, <<"(","5",")">>, <<"(","2","5","5",")">>}

TypeNames ==
    {postgres_type_map[k][1] : k \in DOMAIN postgres_type_map}
        \cup {sqlite_type_map[k][1] : k \in DOMAIN sqlite_type_map}

\* A type with or without a size, as VARCHAR(255), and a type with a
\* precision and a scale, DECIMAL(10,2).
TypeTokens == {name \o size : name \in TypeNames, size \in TypeSizes} \cup {<<"D","E","C","I","M",
      "A","L","(","1","0",",","2",")">>}

TableNames == {<<"U","s","e","r","s">>, <<"P","e","r","s","o","n">>, <<"E">>, <<"T">>, <<"T","A",
      "B","L","E">>, <<"C","R","E","A","T","E">>}

TableStatements == {<<"C","R","E","A","T","E"," ","T","A","B","L","E"," ">> \o name \o <<" ","(",
      "I","d"," ","I","N","T","E","G","E","R",")",";">> : name \in TableNames}

CallInit ==
    /\ run = "first"
    /\ content = <<>>
    /\ first_output = <<>>
    /\ Fresh
    /\ returned = <<>>
    /\ \/ /\ script \in {"postgres", "sqlite"}
          /\ called = "convert_data_type"
          /\ argument \in TypeTokens
       \/ /\ script = "postgres"
          /\ called = "table_name"
          /\ argument \in TableStatements

run_vars == <<script, run, content, pc, lines, line_no, statements, current_statement,
              stmt_no, in_create_table, create_table_buffer, converted, stats, output,
              current_origin, statement_origin, converted_origin, kinds, first_output>>

\* pg_type = convert_data_type(col_type)
postgres_convert_data_type_call ==
    /\ script = "postgres"
    /\ called = "convert_data_type"
    /\ returned = <<>>
    /\ returned' = <<postgres_convert_data_type(argument)>>
    /\ UNCHANGED <<run_vars, called, argument>>

\* match.group(1) + convert_data_type(match.group(2))
sqlite_convert_data_type_call ==
    /\ script = "sqlite"
    /\ called = "convert_data_type"
    /\ returned = <<>>
    /\ returned' = <<sqlite_convert_data_type(argument)>>
    /\ UNCHANGED <<run_vars, called, argument>>

\* The table-name part of convert_create_table.
postgres_table_name_call ==
    /\ script = "postgres"
    /\ called = "table_name"
    /\ returned = <<>>
    /\ returned' = <<postgres_table_name_step(argument)>>
    /\ UNCHANGED <<run_vars, called, argument>>

CallNext ==
    \/ postgres_convert_data_type_call
    \/ sqlite_convert_data_type_call
    \/ postgres_table_name_call

CallSpec == CallInit /\ [][CallNext]_vars

----------------------------------------------------------------------------
(* C4: the table-name step of the Postgres CREATE TABLE rewriter.          *)

\* The statement with the name that follows 'CREATE TABLE ' in lower case
\* and every other character as it is.
C4_NameEnd(statement) == Span(statement, 14, WordSet)
C4_NameLowered(statement) ==
    Slice(statement, 1, 14) \o lower(Slice(statement, 14, C4_NameEnd(statement)))
        \o Slice(statement, C4_NameEnd(statement), Len(statement) + 1)

\* C4: for every statement CREATE TABLE <name> (...), whatever the name (E,
\* T, TABLE and CREATE included), the table-name step lower-cases the
\* occurrence of the name that follows the CREATE TABLE keywords and changes
\* no other text of the statement.
C4_TableNameStep ==
    (called = "table_name" /\ returned # <<>>) => returned[1] = C4_NameLowered(argument)

----------------------------------------------------------------------------
(* C5: the type mappers.                                                   *)

C5_BaseEnd(token) == Span(token, 1, WordSet)
C5_Base(token) == Slice(token, 1, C5_BaseEnd(token))
C5_Suffix(token) == Slice(token, C5_BaseEnd(token), Len(token) + 1)
C5_Target(type_map, base) ==
    type_map[CHOOSE k \in DOMAIN type_map : type_map[k][1] = base][2]
C5_Expected(token) ==
    IF script = "postgres"
    THEN C5_Target(postgres_type_map, C5_Base(token))
             \o (IF C5_Base(token) \in {<<"V","A","R","C","H","A","R">>, <<"C","H","A","R">>, <<"D",
                 "E","C","I","M","A","L">>}
                 THEN C5_Suffix(token) ELSE <<>>)
    ELSE C5_Target(sqlite_type_map, C5_Base(token))

\* C5: for every type token whose base name has an entry in the type map,
\* with or without a size, the type mapper returns the target type of the
\* entry; the Postgres mapper puts the size of the token back after it, as
\* it is, for VARCHAR(n), CHAR(n) and DECIMAL(n,m), and returns no size for
\* any other base name; the SQLite mapper returns no size for any token.
C5_TypeMapper ==
    (called = "convert_data_type" /\ returned # <<>>) => returned[1] = C5_Expected(argument)

----------------------------------------------------------------------------
(* The terms of the claims about a run: the lines of the input that are    *)
(* kept, and what the converted statements hold of them.                   *)

\* Line n of the input, without its line break.
InputLine(n) ==
    IF At(lines[n], Len(lines[n])) = "\n" THEN Slice(lines[n], 1, Len(lines[n]))
    ELSE lines[n]

\* The words a skipped line starts with.
SkipWords ==
    {<<<<"S","E","T">>>>, <<<<"G","R","A","N","T">>>>, <<<<"C","R","E","A","T","E">>, <<"U","S","E",
        "R">>>>, <<<<"C","R","E","A","T","E">>, <<"S","C","H","E","M","A">>>>}
        \cup (IF script = "sqlite"
              THEN {<<<<"C","R","E","A","T","E">>, <<"S","E","Q","U","E","N","C","E">>>>, <<<<"A",
                  "L","T","E","R">>, <<"S","E","Q","U","E","N","C","E">>>>} ELSE {})

Skipped(n) == \E words \in SkipWords : MatchLinePrefix(lines[n], words)
Kept(n) == ~IsBlank(lines[n]) /\ ~Skipped(n)
HasSeparator(n) == Contains(lines[n], <<";">>)
StartsWith(n, words) == MatchLinePrefix(lines[n], words)

\* Line n is one of the lines of a converted statement.
Emitted(n) == \E k \in DOMAIN converted_origin : n \in Range(converted_origin[k])

\* The number of converted statements of a kind.
Converted(kind) == Cardinality({k \in DOMAIN kinds : kinds[k] = kind})

\* The lines of the output file.
OutputLines == Range(split(output, 1))

\* Every counter of a statement kind counts the converted statements of
\* the kind, and nothing else.
CountersCountConverted ==
    /\ (script = "postgres" /\ pc \in {"convert", "done"}) =>
           \A kind \in DOMAIN stats : stats[kind] = Converted(kind)
    /\ (script = "sqlite" /\ pc \in {"lines", "done"}) =>
           /\ stats.create_tables = Converted("create_table")
           /\ stats.inserts = Converted("insert")

----------------------------------------------------------------------------
(* C1: skipped lines.                                                      *)

----------------------------------------------------------------------------
(* C9: the kinds and the counters of the Postgres pipeline.                *)

C9_Phrases == <<
    <<<<"C","R","E","A","T","E"," ","T","A","B","L","E">>, "create_table">>,
    <<<<"I","N","S","E","R","T"," ","I","N","T","O">>, "insert">>,
    <<<<"C","R","E","A","T","E"," ","I","N","D","E","X">>, "create_index">>,
    <<<<"C","R","E","A","T","E"," ","S","E","Q","U","E","N","C","E">>, "create_sequence">>,
    <<<<"A","L","T","E","R"," ","S","E","Q","U","E","N","C","E">>, "alter_sequence">> >>

C9_Kinds == {C9_Phrases[i][2] : i \in DOMAIN C9_Phrases} \cup {"other"}

\* The phrases the upper-cased statement contains.
C9_Found(statement) ==
    {i \in DOMAIN C9_Phrases : Contains(upper(statement), C9_Phrases[i][1])}

C9_Kind(statement) ==
    IF C9_Found(statement) = {} THEN "other" ELSE C9_Phrases[Min(C9_Found(statement))][2]

C9_Sum ==
    stats.create_table + stats.insert + stats.create_index + stats.create_sequence
        + stats.alter_sequence + stats.other

\* C9: in the Postgres pipeline every statement that has been converted has
\* one kind, the first of CREATE TABLE, INSERT INTO, CREATE INDEX, CREATE
\* SEQUENCE, ALTER SEQUENCE whose phrase its upper-cased text contains, or
\* other; the counter of a kind is the number of statements converted with
\* that kind, so the six counters add up to the number of converted
\* statements, which at the end is the number of segmented statements; the
\* converted statements are those of the input, in the order of the input.
C9_OneKindPerStatement ==
    (script = "postgres" /\ pc \in {"convert", "done"}) =>
        /\ DOMAIN stats = C9_Kinds
        /\ Len(kinds) = stmt_no - 1
        /\ Len(converted) = stmt_no - 1
        /\ \A k \in DOMAIN kinds : kinds[k] = C9_Kind(statements[k])
        /\ \A kind \in C9_Kinds : stats[kind] = Converted(kind)
        /\ C9_Sum = Len(converted)
        /\ pc = "done" =>
               /\ C9_Sum = Len(statements)
               /\ Len(converted) = Len(statements)
               /\ output = join(<<"\n">>, converted)
        /\ \A k \in DOMAIN converted_origin : converted_origin[k] = statement_origin[k]
        /\ \A k \in 1..(Len(statement_origin) - 1) :
               statement_origin[k][Len(statement_origin[k])] < statement_origin[k + 1][1]

\* A Postgres run is over that has converted a statement holding two of
\* the phrases, and a statement holding none.
C9_TwoPhrases ==
    /\ script = "postgres"
    /\ pc = "done"
    /\ \E k \in DOMAIN kinds : Cardinality(C9_Found(statements[k])) >= 2
    /\ \E k \in DOMAIN kinds : kinds[k] = "other"

----------------------------------------------------------------------------
(* C10: the lines after the last separator.                                *)

\* The last kept line that holds a separator (0: there is none).
C10_LastSeparator ==
    LET ends == {n \in DOMAIN lines : Kept(n) /\ HasSeparator(n)}
    IN  IF ends = {} THEN 0 ELSE CHOOSE n \in ends : \A m \in ends : m <= n

C10_Trailing == {n \in DOMAIN lines : Kept(n) /\ n > C10_LastSeparator}

C10_CreateTable(n) == StartsWith(n, <<<<"C","R","E","A","T","E">>, <<"T","A","B","L","E">>>>)

\* Line n is the first line of a CREATE TABLE statement, or follows one
\* that no line with a separator has ended yet.
C10_InCreateTable(n) ==
    \/ C10_CreateTable(n)
    \/ \E m \in 1..(n - 1) :
           /\ Kept(m)
           /\ C10_CreateTable(m)
           /\ \A j \in (m + 1)..(n - 1) :
                  Kept(j) => ~C10_CreateTable(j) /\ ~HasSeparator(j)

----------------------------------------------------------------------------
(* C2: the boolean literals of an INSERT INTO statement.                   *)

\* The previous kept line, if there is one, ends a statement.
C2_StartsStatement(a) ==
    \A j \in 1..(a - 1) :
        (Kept(j) /\ \A i \in (j + 1)..(a - 1) : ~Kept(i)) => HasSeparator(j)

\* A line that goes on with a statement: it starts no statement itself.
C2_GoesOn(n) ==
    \A word \in {<<"C","R","E","A","T","E">>, <<"I","N","S","E","R","T">>, <<"A","L","T","E",
        "R">>} : ~StartsWith(n, <<word>>)

\* The INSERT INTO statements of the input, as <<first line, last line>>:
\* the first line starts with INSERT INTO, the last one is the first that
\* holds the separator; no line up to it holds the words CREATE TABLE.
C2_Statements ==
    {st \in (DOMAIN lines) \X (DOMAIN lines) :
        /\ st[1] <= st[2]
        /\ Kept(st[1])
        /\ StartsWith(st[1], <<<<"I","N","S","E","R","T">>, <<"I","N","T","O">>>>)
        /\ C2_StartsStatement(st[1])
        /\ Kept(st[2])
        /\ HasSeparator(st[2])
        /\ \A j \in st[1]..(st[2] - 1) : Kept(j) => ~HasSeparator(j)
        /\ \A j \in (st[1] + 1)..st[2] : Kept(j) => C2_GoesOn(j)
        /\ \A j \in 1..st[2] : ~Contains(upper(lines[j]), <<"C","R","E","A","T","E"," ","T","A","B",
            "L","E">>)}

\* The converted statements that hold a line of the statement st.
C2_ConvertedOf(st) ==
    {k \in DOMAIN converted_origin :
        \E j \in st[1]..st[2] : j \in Range(converted_origin[k])}

\* Every word TRUE or FALSE of the text, in any case, is in upper case
\* (Postgres); there is none (SQLite, where they have become 1 and 0).
C2_Literals(text) ==
    \A i \in Positions(text) :
        \A word \in {<<"T","R","U","E">>, <<"F","A","L","S","E">>} :
            WordKeywords(text, i, <<word>>) > 0 => (script = "postgres" /\ Lit(text, i, word))

\* C2: at the end of a run, for every INSERT INTO statement of the input,
\* of one line or of several, every line of it is in the output, in what
\* the output holds of it every boolean literal is TRUE or FALSE in upper
\* case (Postgres) or has become 1 or 0 (SQLite), and it was counted once
\* as an insert.
C2_BooleansRewritten ==
    pc = "done" =>
        \A st \in C2_Statements :
            /\ \A j \in st[1]..st[2] : Kept(j) => Emitted(j)
            /\ \A k \in C2_ConvertedOf(st) : C2_Literals(converted[k])
            /\ Cardinality({k \in C2_ConvertedOf(st) : kinds[k] = "insert"}) = 1
            /\ CountersCountConverted

----------------------------------------------------------------------------
(* C3: the CREATE TABLE statements of the Postgres pipeline.               *)

C3_Names == {<<"U","s","e","r","s">>, <<"P","e","r","s","o","n">>}
C3_Columns == {<<<<"I","d">>, <<"I","N","T","E","G","E","R">>>>, <<<<"N","a","m","e">>, <<"V","A",
      "R","C","H","A","R","(","5","0",")">>>>, <<<<"D">>, <<"D","O","U","B","L","E">>>>}
C3_ColumnLists == UNION {[1..n -> C3_Columns] : n \in 1..2}

\* A column, as the input has it, or as the output is to have it.
C3_Column(column, rewritten) ==
    IF rewritten THEN lower(column[1]) \o <<" ">> \o postgres_convert_data_type(column[2])
    ELSE column[1] \o <<" ">> \o column[2]

C3_Name(name, rewritten) == IF rewritten THEN lower(name) ELSE name

\* CREATE TABLE <Name> (<Col1> <Type1>, ..., <ColN> <TypeN>); on one line.
C3_OneLine(name, columns, rewritten) ==
    <<"C","R","E","A","T","E"," ","T","A","B","L","E"," ">> \o C3_Name(name, rewritten) \o <<" ",
        "(">>
        \o join(<<","," ">>, [i \in DOMAIN columns |-> C3_Column(columns[i], rewritten)]) \o <<")",
            ";">>

\* The same, with one column per line.
C3_PerLine(name, columns, rewritten) ==
    <<"C","R","E","A","T","E"," ","T","A","B","L","E"," ">> \o C3_Name(name, rewritten) \o <<" ",
        "(","\n">>
        \o join(<<",","\n">>, [i \in DOMAIN columns |-> <<" ",
            " ">> \o C3_Column(columns[i], rewritten)])
        \o <<")",";">>

\* C3: in the Postgres pipeline, a statement CREATE TABLE <Name> (<Col1>
\* <Type1>, ..., <ColN> <TypeN>); on one line or with one column per line,
\* is converted to the same statement with the keywords as they are, the
\* table name and every column name in lower case and every type replaced
\* by what the type mapper returns for it: CREATE TABLE Users (Id INTEGER,
\* Name VARCHAR(50)); becomes CREATE TABLE users (id INTEGER, name VARCHAR(50));
C3_CreateTableRewritten ==
    script = "postgres" =>
        \A k \in DOMAIN converted :
            \A name \in C3_Names :
                \A columns \in C3_ColumnLists :
                    /\ statements[k] = C3_OneLine(name, columns, FALSE) =>
                           converted[k] = C3_OneLine(name, columns, TRUE)
                    /\ statements[k] = C3_PerLine(name, columns, FALSE) =>
                           converted[k] = C3_PerLine(name, columns, TRUE)

----------------------------------------------------------------------------
(* C6: sequences.                                                          *)

C6_Keywords == {<<"C","R","E","A","T","E"," ","S","E","Q","U","E","N","C","E"," ">>, <<"A","L","T",
      "E","R"," ","S","E","Q","U","E","N","C","E"," ">>}

\* The statement, which starts with the keywords, with the name after them
\* in lower case and START WITH replaced by START in what follows the name.
C6_NameEnd(statement, keywords) == Span(statement, Len(keywords) + 1, WordSet)
C6_Rewritten(statement, keywords) ==
    keywords \o lower(Slice(statement, Len(keywords) + 1, C6_NameEnd(statement, keywords)))
        \o ReplaceWord(Slice(statement, C6_NameEnd(statement, keywords), Len(statement) + 1),
                       <<<<"S","T","A","R","T">>, <<"W","I","T","H">>>>, <<"S","T","A","R","T">>)

\* C6: in the Postgres pipeline a statement that starts with CREATE SEQUENCE
\* or ALTER SEQUENCE and is converted as such has START WITH replaced by
\* START and the name after the keywords in lower case; in the SQLite
\* pipeline no line that starts with CREATE SEQUENCE or ALTER SEQUENCE is
\* part of the output.
C6_SequencesRewritten ==
    /\ script = "postgres" =>
           \A k \in DOMAIN converted :
               \A keywords \in C6_Keywords :
                   (/\ Lit(statements[k], 1, keywords)
                    /\ kinds[k] \in {"create_sequence", "alter_sequence"}) =>
                       converted[k] = C6_Rewritten(statements[k], keywords)
    /\ script = "sqlite" =>
           \A n \in DOMAIN lines :
               (\/ StartsWith(n, <<<<"C","R","E","A","T","E">>, <<"S","E","Q","U","E","N","C",
                   "E">>>>)
                \/ StartsWith(n, <<<<"A","L","T","E","R">>, <<"S","E","Q","U","E","N","C",
                    "E">>>>)) =>
                   /\ ~Emitted(n)
                   /\ pc = "done" => InputLine(n) \notin OutputLines

----------------------------------------------------------------------------
(* C7: the second run.                                                     *)

C7_NameKeywords == {
    <<<<"C","R","E","A","T","E">>, <<"T","A","B","L","E">>>>, <<<<"I","N","S","E","R","T">>, <<"I",
        "N","T","O">>>>, <<<<"O","N">>>>,
    <<<<"C","R","E","A","T","E">>, <<"S","E","Q","U","E","N","C","E">>>>, <<<<"A","L","T","E",
        "R">>, <<"S","E","Q","U","E","N","C","E">>>> }

\* Every name that follows the keywords of a statement is in lower case.
C7_NamesLowered(text) ==
    \A keywords \in C7_NameKeywords :
        \A i \in Positions(text) :
            NameAfter(text, i, keywords)[1] > 0 =>
                Slice(text, NameAfter(text, i, keywords)[1], NameAfter(text, i, keywords)[2])
                    = lower(Slice(text, NameAfter(text, i, keywords)[1],
                                  NameAfter(text, i, keywords)[2]))

\* C7: a pipeline run on its own output, in which the first run has put
\* the names in lower case, writes the same text again: no type and no
\* name is changed by the second run.
C7_SecondRunChangesNothing ==
    (run = "second" /\ pc = "done" /\ C7_NamesLowered(first_output)) => output = first_output

----------------------------------------------------------------------------
(* C8: a statement ends with the line that holds the separator.            *)

\* Of the lines ns of a statement, the last one holds the separator and no
\* other does.
C8_EndsAtSeparator(ns) ==
    /\ HasSeparator(ns[Len(ns)])
    /\ \A i \in 1..(Len(ns) - 1) : ~HasSeparator(ns[i])

C8_OneLineCreateTables ==
    {n \in DOMAIN lines :
        Kept(n) /\ StartsWith(n, <<<<"C","R","E","A","T","E">>, <<"T","A","B","L",
            "E">>>>) /\ HasSeparator(n)}

\* C8: in both pipelines no line of the statement being accumulated holds
\* the separator, and a statement ends with the first of its lines that
\* holds it. At the end of a SQLite run a CREATE TABLE statement whose first
\* line holds the separator has been converted by itself, as a CREATE TABLE
\* statement, and an input of k such lines and nothing else that is kept
\* has given k converted statements and a counter of k.
C8_CompleteAtSeparator ==
    /\ \A n \in Range(current_origin) : ~HasSeparator(n)
    /\ \A k \in DOMAIN statement_origin : C8_EndsAtSeparator(statement_origin[k])
    /\ script = "sqlite" =>
           /\ \A k \in DOMAIN converted_origin :
                  kinds[k] = "create_table" => C8_EndsAtSeparator(converted_origin[k])
           /\ pc = "done" =>
                  /\ \A n \in C8_OneLineCreateTables :
                         \E k \in DOMAIN converted_origin :
                             converted_origin[k] = <<n>> /\ kinds[k] = "create_table"
                  /\ (\A n \in DOMAIN lines : Kept(n) => n \in C8_OneLineCreateTables) =>
                         /\ Len(converted) = Cardinality(C8_OneLineCreateTables)
                         /\ stats.create_tables = Cardinality(C8_OneLineCreateTables)

====
